---------------------------- MODULE Spec2Model ----------------------------
(***************************************************************************)
(* Sharpe Single Index Model optimizer (src/sim_app.py).                   *)
(*                                                                         *)
(* One run of the Streamlit script is a forward pipeline:                  *)
(*   idle -> validate -> download (index fallback loop) -> returns ->      *)
(*   fit (one record per valid symbol) -> frame -> cutoff -> weights ->    *)
(*   display.                                                              *)
(*                                                                         *)
(* Floating point values are modelled as exact rationals extended with     *)
(* +inf, -inf and NaN, with the IEEE-754 rules for the special values      *)
(* (x/0, 0/0, inf-inf, NaN propagation, comparisons with NaN false).       *)
(* Rounding is not modelled, and zero carries no sign (x/0 for x > 0 is    *)
(* +inf).                                                                  *)
(***************************************************************************)
EXTENDS Integers, Sequences, FiniteSets

VARIABLES
    pc,            \* position of the script
    tickers,       \* number of parsed tickers (line 13); the tickers are 1..tickers
    downloaded,    \* index candidates passed to yf.download so far, in order
    came,          \* for each download, whether its index column survived
    market_index,  \* loop variable of the fallback loop (0: not yet bound)
    prices,        \* columns of the last price table: [cols, index]
    valid,         \* tickers with a price column, in ticker order
    rm,            \* benchmark return series (concrete only in SpecFit)
    records,       \* one record per fitted symbol
    C_star,        \* the cutoff
    sel,           \* Stock labels with Ci > C_star
    z,             \* sel["z"]
    Weight,        \* sel["Weight"]
    sorted_w,      \* sel["Weight"].sort_values(ascending=False), as labels
    top5,          \* the displayed table rows
    outcome,       \* what the page shows
    ran            \* the stages that have executed in this run

vars == <<pc, tickers, downloaded, came, market_index, prices, valid, rm, records,
          C_star, sel, z, Weight, sorted_w, top5, outcome, ran>>

---------------------------------------------------------------------------
(* Bounds of the model *)

\* most tickers whose price column can survive a download (pipeline spec)
MaxValid == 2
\* most securities in the table of the display spec
MaxSel == 6
\* most securities fitted on concrete return series (estimator spec)
MaxFit == 2
\* return observations per series (estimator spec)
NDays == 3

(* Program constants *)
MinTickers == 5
MaxTickers == 50
TopN == 5
PeriodsPerYear == 252

---------------------------------------------------------------------------
(* Extended rational arithmetic standing for float64 *)

Abs(i) == IF i < 0 THEN -i ELSE i

Min(a, b) == IF a <= b THEN a ELSE b

RECURSIVE GCD(_, _)
GCD(a, b) == IF b = 0 THEN a ELSE GCD(b, a % b)

NaN  == [k |-> "nan",  n |-> 0, d |-> 1]
PInf == [k |-> "pinf", n |-> 0, d |-> 1]
NInf == [k |-> "ninf", n |-> 0, d |-> 1]

\* the finite value n/d (d # 0), in lowest terms with a positive denominator
Fin(n, d) ==
    LET s == IF d < 0 THEN -1 ELSE 1
        g == GCD(Abs(n), Abs(d))
    IN  [k |-> "fin", n |-> (s * n) \div g, d |-> (s * d) \div g]

Int2Num(i) == Fin(i, 1)
Zero == Int2Num(0)
One  == Int2Num(1)

IsNaN(x) == x.k = "nan"
IsFin(x) == x.k = "fin"
IsInf(x) == x.k \in {"pinf", "ninf"}

Sign(x) ==
    CASE x.k = "pinf" -> 1
      [] x.k = "ninf" -> -1
      [] x.k = "fin"  -> (IF x.n > 0 THEN 1 ELSE IF x.n < 0 THEN -1 ELSE 0)
      [] OTHER        -> 0

InfOfSign(s) == IF s >= 0 THEN PInf ELSE NInf

Neg(x) ==
    CASE x.k = "pinf" -> NInf
      [] x.k = "ninf" -> PInf
      [] x.k = "fin"  -> Fin(-x.n, x.d)
      [] OTHER        -> NaN

Add(x, y) ==
    IF IsNaN(x) \/ IsNaN(y) THEN NaN
    ELSE IF IsInf(x) /\ IsInf(y) THEN (IF x.k = y.k THEN x ELSE NaN)
    ELSE IF IsInf(x) THEN x
    ELSE IF IsInf(y) THEN y
    ELSE LET g == GCD(x.d, y.d)
         IN  Fin(x.n * (y.d \div g) + y.n * (x.d \div g), (x.d \div g) * y.d)

Sub(x, y) == Add(x, Neg(y))

Mul(x, y) ==
    IF IsNaN(x) \/ IsNaN(y) THEN NaN
    ELSE IF IsInf(x) \/ IsInf(y)
         THEN (IF Sign(x) = 0 \/ Sign(y) = 0 THEN NaN
               ELSE InfOfSign(Sign(x) * Sign(y)))
    ELSE LET g == GCD(Abs(x.n), y.d)
             h == GCD(Abs(y.n), x.d)
         IN  Fin((x.n \div g) * (y.n \div h), (x.d \div h) * (y.d \div g))

Div(x, y) ==
    IF IsNaN(x) \/ IsNaN(y) THEN NaN
    ELSE IF IsInf(x) /\ IsInf(y) THEN NaN
    ELSE IF IsInf(x) THEN InfOfSign(Sign(x) * (IF Sign(y) < 0 THEN -1 ELSE 1))
    ELSE IF IsInf(y) THEN Zero
    ELSE IF y.n = 0 THEN (IF x.n = 0 THEN NaN ELSE InfOfSign(Sign(x)))
    ELSE LET g == GCD(Abs(x.n), Abs(y.n))
             h == GCD(x.d, y.d)
         IN  Fin((x.n \div g) * (y.d \div h), (x.d \div h) * (y.n \div g))

\* x > y; false when either side is NaN
Gt(x, y) ==
    /\ ~IsNaN(x)
    /\ ~IsNaN(y)
    /\ \/ x.k = "pinf" /\ y.k # "pinf"
       \/ y.k = "ninf" /\ x.k # "ninf"
       \/ /\ IsFin(x)
          /\ IsFin(y)
          /\ LET g == GCD(x.d, y.d)
             IN  x.n * (y.d \div g) > y.n * (x.d \div g)

Lt(x, y) == Gt(y, x)

\* Series.sum() with the default skipna=True: NaN entries count as 0
RECURSIVE SumSkipNa(_, _)
SumSkipNa(f, S) ==
    IF S = {} THEN Zero
    ELSE LET s == CHOOSE e \in S : TRUE
             v == IF IsNaN(f[s]) THEN Zero ELSE f[s]
         IN  Add(v, SumSkipNa(f, S \ {s}))

---------------------------------------------------------------------------
(* Parameters of the script, lines 16-19 *)

\* the positions of "^GSPC", "^DJI", "^IXIC" in index_candidates
index_candidates == <<1, 2, 3>>

NumCandidates == Len(index_candidates)

\* 0.04
risk_free_rate == Fin(4, 100)

\* the ticker counts a user enters: around both ends of the accepted range
TickerCounts == {0, MinTickers - 1, MinTickers, MaxTickers, MaxTickers + 1}

\* what the estimator's outputs range over in the pipeline spec
AlphaVals == {-1, 0, 1}
BetaVals  == {-1, 0, 1}
VarVals   == {1, 2}

---------------------------------------------------------------------------
(* The table and its derived columns, lines 88-99 *)

Stocks(recs) == {recs[i].Stock : i \in 1..Len(recs)}

Row(recs, s) == recs[CHOOSE i \in 1..Len(recs) : recs[i].Stock = s]

\* df["Ci"]
Ci(r) == Div(r.Alpha, r.Resid_Var)

\* df["Beta2_over_Var"]
Beta2_over_Var(r) == Div(Mul(r.Beta, r.Beta), r.Resid_Var)

\* df["Aβ_over_Var"]
AB_over_Var(r) == Div(Mul(r.Alpha, r.Beta), r.Resid_Var)

\* line 95
CStarOf(recs) ==
    LET S   == Stocks(recs)
        num == SumSkipNa([s \in S |-> AB_over_Var(Row(recs, s))], S)
        den == Add(One, SumSkipNa([s \in S |-> Beta2_over_Var(Row(recs, s))], S))
    IN  Div(num, den)

\* a filter that also keeps a candidate sitting on the cutoff
AboveOrEqual(ci, c) == ~IsNaN(ci) /\ ~IsNaN(c) /\ ~Gt(c, ci)

\* the row filter of line 96
Above(ci, c) == Gt(ci, c)

\* line 96
SelectOf(recs, c) == {s \in Stocks(recs) : Above(Ci(Row(recs, s)), c)}

\* line 98
ZOf(r, c) == Mul(Div(r.Alpha, r.Resid_Var), Div(r.Beta, c))

\* line 99: float division never raises; a zero sum gives NaN or an infinity
WeightOf(zf, S) == [s \in S |-> Div(zf[s], SumSkipNa(zf, S))]

\* a division that raises on a zero divisor, as Python's own does
WeightRaisesOnZeroSum(zf, S) == SumSkipNa(zf, S) = Zero

\* whether line 99 raises for the scores zf
WeightRaises(zf, S) == FALSE

---------------------------------------------------------------------------
(* Sorting and display, lines 102-103 *)

\* labels that can come first in a descending sort with NaN last
Firsts(W, S) ==
    LET nn == {s \in S : ~IsNaN(W[s])}
    IN  IF nn = {} THEN S
        ELSE {s \in nn : \A t \in nn : ~Gt(W[t], W[s])}

\* every order sort_values(ascending=False) can return: descending, NaN
\* last, ties in any order (the default quicksort is not stable)
RECURSIVE SortedOrders(_, _)
SortedOrders(W, S) ==
    IF S = {} THEN {<<>>}
    ELSE UNION { {<<m>> \o t : t \in SortedOrders(W, S \ {m})} : m \in Firsts(W, S) }

\* .head(n)
Head_n(sq, n) == SubSeq(sq, 1, Min(n, Len(sq)))

\* n/d rounded to the nearest integer, ties to even (d > 0)
RoundHalfEven(n, d) ==
    LET q == n \div d
        r == n % d
    IN  IF 2 * r < d THEN q
        ELSE IF 2 * r > d THEN q + 1
        ELSE IF q % 2 = 0 THEN q ELSE q + 1

\* "{:.2%}".format(w): the percentage with two decimals, kept as the
\* fraction it denotes ("12.35%" is 1235/10000); 'nan%' and 'inf%' stay
FormatPct(w) ==
    IF IsFin(w)
      THEN LET g == GCD(10000, w.d)
           IN  Fin(RoundHalfEven(w.n * (10000 \div g), w.d \div g), 10000)
      ELSE w

\* the first n rows of the sorted weights, formatted
TopRows(order, W, n) ==
    LET hd == Head_n(order, n)
    IN  [i \in 1..Len(hd) |-> [Stock |-> hd[i], Weight |-> FormatPct(W[hd[i]])]]

\* the same rows with the weights renormalised over the rows shown
TopRowsRenormalised(order, W) ==
    LET hd    == Head_n(order, TopN)
        shown == {hd[i] : i \in 1..Len(hd)}
        tot   == SumSkipNa(W, shown)
    IN  [i \in 1..Len(hd) |-> [Stock |-> hd[i], Weight |-> FormatPct(Div(W[hd[i]], tot))]]

\* top5_df, lines 102-103
DisplayRows(order, W) == TopRows(order, W, TopN)

---------------------------------------------------------------------------
(* The script, one action per step *)

Rec(sym, a, b, v) == [Stock |-> sym, Alpha |-> a, Beta |-> b, Resid_Var |-> v]

NoPrices == [cols |-> {}, index |-> FALSE]

\* values of the later stages before they run
Unset(n) ==
    /\ tickers = n
    /\ downloaded = <<>>
    /\ came = <<>>
    /\ market_index = 0
    /\ prices = NoPrices
    /\ valid = <<>>
    /\ rm = <<>>
    /\ records = <<>>
    /\ C_star = NaN
    /\ sel = {}
    /\ z = <<>>
    /\ Weight = <<>>
    /\ sorted_w = <<>>
    /\ top5 = <<>>
    /\ ran = {}

\* lines 10-13 and 111-112: the page before the button is pressed
Init ==
    /\ pc = "idle"
    /\ outcome = "info"
    /\ \E n \in TickerCounts : Unset(n)

\* a check that forgets the lower end
ValidCountNoMin(n) == n <= MaxTickers

\* line 23
ValidCount(n) == MinTickers <= n /\ n <= MaxTickers

\* lines 21-25: the button is pressed and the ticker count validated;
\* st.stop() ends the run
RunModel ==
    /\ pc = "idle"
    /\ ran' = ran \cup {"validate"}
    /\ IF ValidCount(tickers)
         THEN pc' = "download" /\ outcome' = "none"
         ELSE pc' = "stopped" /\ outcome' = "count_error"
    /\ UNCHANGED <<tickers, downloaded, came, market_index, prices, valid, rm,
                   records, C_star, sel, z, Weight, sorted_w, top5>>

\* a loop that breaks on its first pass whatever came back
IndexCameAlways(p, m) == TRUE

\* line 54: did the index come through?
IndexCame(p, m) == p.index

\* the tickers whose column can survive; they are interchangeable, so the
\* survivors are taken among the first MaxValid
Survivors == SUBSET (1..Min(tickers, MaxValid))

\* lines 29-58: one pass of the fallback loop. The provider answers with
\* the columns that survive dropna(axis=1, how="all"); the loop breaks when
\* the index column is among them, and its else branch reports the failure
\* and stops the run (StopException is not an Exception, so line 108 does
\* not catch it).
Download ==
    /\ pc = "download"
    /\ Len(downloaded) < NumCandidates
    /\ LET m == index_candidates[Len(downloaded) + 1]
       IN  \E got \in Survivors, ix \in BOOLEAN :
             LET p == [cols |-> got, index |-> ix]
             IN  /\ downloaded' = Append(downloaded, m)
                 /\ came' = Append(came, ix)
                 /\ market_index' = m
                 /\ prices' = p
                 /\ ran' = ran \cup {"download"}
                 /\ IF IndexCame(p, m)
                      THEN pc' = "returns" /\ outcome' = outcome
                      ELSE IF Len(downloaded) + 1 < NumCandidates
                      THEN pc' = "download" /\ outcome' = outcome
                      ELSE pc' = "stopped" /\ outcome' = "index_error"
    /\ UNCHANGED <<tickers, valid, rm, records, C_star, sel, z, Weight,
                   sorted_w, top5>>

\* lines 30 and 108-109: yf.download raises
DownloadRaises ==
    /\ pc = "download"
    /\ Len(downloaded) < NumCandidates
    /\ downloaded' = Append(downloaded, index_candidates[Len(downloaded) + 1])
    /\ market_index' = index_candidates[Len(downloaded) + 1]
    /\ came' = Append(came, FALSE)
    /\ ran' = ran \cup {"download"}
    /\ pc' = "stopped"
    /\ outcome' = "unexpected_error"
    /\ UNCHANGED <<tickers, prices, valid, rm, records, C_star, sel, z,
                   Weight, sorted_w, top5>>

\* the ascending sequence of the members of S
RECURSIVE Ascending(_)
Ascending(S) ==
    IF S = {} THEN <<>>
    ELSE LET m == CHOOSE e \in S : \A o \in S : e <= o
         IN  <<m>> \o Ascending(S \ {m})

\* line 63
ValidOf(p) == Ascending({t \in 1..tickers : t \in p.cols})

\* lines 61-64: the return table (its rows are concrete only in SpecFit)
ComputeReturns ==
    /\ pc = "returns"
    /\ valid' = ValidOf(prices)
    /\ ran' = ran \cup {"returns"}
    /\ pc' = "fit"
    /\ UNCHANGED <<tickers, downloaded, came, market_index, prices, rm, records,
                   C_star, sel, z, Weight, sorted_w, top5, outcome>>

\* lines 68-86, pipeline spec: one pass of the estimation loop, the
\* statistics taken from the value sets
FitRecord ==
    /\ pc = "fit"
    /\ rm = <<>>
    /\ Len(records) < Len(valid)
    /\ \E a \in AlphaVals, b \in BetaVals, v \in VarVals :
         records' = Append(records,
                           Rec(valid[Len(records) + 1], Int2Num(a), Int2Num(b), Int2Num(v)))
    /\ ran' = ran \cup {"fit"}
    /\ UNCHANGED <<pc, tickers, downloaded, came, market_index, prices, valid, rm,
                   C_star, sel, z, Weight, sorted_w, top5, outcome>>

\* lines 70 and 108-109, pipeline spec: np.polyfit raises (no return rows
\* left after dropna, or the SVD does not converge)
FitRaises ==
    /\ pc = "fit"
    /\ rm = <<>>
    /\ Len(records) < Len(valid)
    /\ ran' = ran \cup {"fit"}
    /\ pc' = "stopped"
    /\ outcome' = "unexpected_error"
    /\ UNCHANGED <<tickers, downloaded, came, market_index, prices, valid, rm,
                   records, C_star, sel, z, Weight, sorted_w, top5>>

\* line 88: pd.DataFrame(records).set_index("Stock"); with no record the
\* frame has no "Stock" column and set_index raises KeyError
BuildFrame ==
    /\ pc = "fit"
    /\ Len(records) = Len(valid)
    /\ ran' = ran \cup {"frame"}
    /\ IF records = <<>>
         THEN pc' = "stopped" /\ outcome' = "unexpected_error"
         ELSE pc' = "cutoff" /\ outcome' = outcome
    /\ UNCHANGED <<tickers, downloaded, came, market_index, prices, valid, rm,
                   records, C_star, sel, z, Weight, sorted_w, top5>>

\* lines 91-96
Cutoff ==
    /\ pc = "cutoff"
    /\ C_star' = CStarOf(records)
    /\ sel' = SelectOf(records, CStarOf(records))
    /\ ran' = ran \cup {"cutoff"}
    /\ pc' = "weights"
    /\ UNCHANGED <<tickers, downloaded, came, market_index, prices, valid, rm,
                   records, z, Weight, sorted_w, top5, outcome>>

\* lines 98-99
Weights ==
    /\ pc = "weights"
    /\ LET zf == [s \in sel |-> ZOf(Row(records, s), C_star)]
       IN  /\ z' = zf
           /\ IF WeightRaises(zf, sel)
                THEN /\ Weight' = Weight
                     /\ pc' = "stopped"
                     /\ outcome' = "unexpected_error"
                ELSE /\ Weight' = WeightOf(zf, sel)
                     /\ pc' = "display"
                     /\ outcome' = outcome
    /\ ran' = ran \cup {"weights"}
    /\ UNCHANGED <<tickers, downloaded, came, market_index, prices, valid, rm,
                   records, C_star, sel, sorted_w, top5>>

\* lines 102-106
Display ==
    /\ pc = "display"
    /\ \E order \in SortedOrders(Weight, sel) :
         /\ sorted_w' = order
         /\ top5' = DisplayRows(order, Weight)
    /\ ran' = ran \cup {"display"}
    /\ outcome' = "table"
    /\ pc' = "done"
    /\ UNCHANGED <<tickers, downloaded, came, market_index, prices, valid, rm,
                   records, C_star, sel, z, Weight>>

Next ==
    \/ RunModel
    \/ Download
    \/ DownloadRaises
    \/ ComputeReturns
    \/ FitRecord
    \/ FitRaises
    \/ BuildFrame
    \/ Cutoff
    \/ Weights
    \/ Display

Spec == Init /\ [][Next]_vars

---------------------------------------------------------------------------
(* Helpers of the properties *)

LaterStages == {"returns", "fit", "frame", "cutoff", "weights", "display"}

\* every statistic of the table is an integer and every residual variance
\* is positive
IntTable(recs) ==
    \A i \in 1..Len(recs) :
        /\ IsFin(recs[i].Alpha) /\ recs[i].Alpha.d = 1
        /\ IsFin(recs[i].Beta) /\ recs[i].Beta.d = 1
        /\ IsFin(recs[i].Resid_Var) /\ recs[i].Resid_Var.d = 1
        /\ recs[i].Resid_Var.n > 0

\* the product of the residual variances of rows 1..i, row j left out
RECURSIVE VarProd(_, _, _)
VarProd(recs, i, j) ==
    IF i = 0 THEN 1
    ELSE (IF i = j THEN 1 ELSE recs[i].Resid_Var.n) * VarProd(recs, i - 1, j)

\* sum over rows 1..i of alpha*beta/var, times the product of all variances
RECURSIVE ScaledAB(_, _)
ScaledAB(recs, i) ==
    IF i = 0 THEN 0
    ELSE recs[i].Alpha.n * recs[i].Beta.n * VarProd(recs, Len(recs), i)
         + ScaledAB(recs, i - 1)

\* sum over rows 1..i of beta^2/var, times the product of all variances
RECURSIVE ScaledB2(_, _)
ScaledB2(recs, i) ==
    IF i = 0 THEN 0
    ELSE recs[i].Beta.n * recs[i].Beta.n * VarProd(recs, Len(recs), i)
         + ScaledB2(recs, i - 1)

\* For an integer table, Ci - C* has the sign of
\*   alpha_i * (P + sum beta^2 P/var) - var_i * (sum alpha beta P/var)
\* where P is the product of all residual variances.
CutoffGap(recs, i) ==
    recs[i].Alpha.n * (VarProd(recs, Len(recs), 0) + ScaledB2(recs, Len(recs)))
    - recs[i].Resid_Var.n * ScaledAB(recs, Len(recs))

---------------------------------------------------------------------------
(* C1 *)

\* C1: once the cutoff stage has run on a table with positive residual
\* variances, the selection is exactly the set of candidates whose
\* Ci = alpha/var is strictly greater than C*, the ratio of the sums of
\* alpha*beta/var and 1 + beta^2/var over all candidates.
C1_SelectionIsStrictlyAboveCutoff ==
    ("cutoff" \in ran /\ IntTable(records)) =>
        \A i \in 1..Len(records) :
            (records[i].Stock \in sel) <=> (CutoffGap(records, i) > 0)

\* a candidate with Ci = C* # 0 is left out while another one is selected
C1_Witness ==
    /\ "cutoff" \in ran
    /\ IntTable(records)
    /\ \E i, j \in 1..Len(records) :
         /\ CutoffGap(records, i) = 0
         /\ ScaledAB(records, Len(records)) # 0
         /\ records[i].Stock \notin sel
         /\ records[j].Stock \in sel

---------------------------------------------------------------------------
(* C4 *)

\* C4: the index candidates are downloaded in list order; a later candidate
\* is downloaded only after every earlier one failed; the later stages run
\* with the first candidate whose column survived; and when all candidates
\* failed the run ends with the index error and no later stage has run.
C4_IndexFallbackInOrder ==
    /\ downloaded = SubSeq(index_candidates, 1, Len(downloaded))
    /\ Len(came) = Len(downloaded)
    /\ \A i \in 1..Len(downloaded) - 1 : ~came[i]
    /\ (pc \in LaterStages \cup {"cutoff", "done"} \/ ran \cap LaterStages # {}) =>
          /\ downloaded # <<>>
          /\ market_index = downloaded[Len(downloaded)]
          /\ came[Len(downloaded)]
    /\ (Len(came) = NumCandidates /\ \A i \in 1..NumCandidates : ~came[i]) =>
          /\ pc = "stopped"
          /\ outcome \in {"index_error", "unexpected_error"}
    /\ outcome = "index_error" =>
          /\ downloaded = index_candidates
          /\ \A i \in 1..NumCandidates : ~came[i]
          /\ pc = "stopped"
          /\ ran \cap LaterStages = {}
          /\ records = <<>> /\ Weight = <<>> /\ top5 = <<>>

\* the run reached the table with the second candidate after the first failed
C4_Witness ==
    /\ pc = "done"
    /\ outcome = "table"
    /\ market_index = index_candidates[2]
    /\ came = <<FALSE, TRUE>>

\* all three candidates failed
C4_WitnessExhausted ==
    /\ outcome = "index_error"
    /\ Len(downloaded) = NumCandidates

---------------------------------------------------------------------------
(* C7 *)

\* C7: when the cutoff stage selects no candidate, the run goes on to the
\* display without an error and ends showing an empty weight table.
C7_EmptySelectionIsNormal ==
    ("cutoff" \in ran /\ sel = {}) =>
        /\ pc \in {"weights", "display", "done"}
        /\ outcome \in {"none", "table"}
        /\ pc = "weights" => ENABLED Weights
        /\ pc = "display" => ENABLED Display
        /\ "weights" \in ran => Weight = <<>>
        /\ pc = "done" => (outcome = "table" /\ top5 = <<>>)

\* a run over a non-empty table ended with nothing selected
C7_Witness ==
    /\ pc = "done"
    /\ records # <<>>
    /\ sel = {}
    /\ top5 = <<>>

---------------------------------------------------------------------------
(* C8 *)

\* C8: a download or any later stage happens only with 5 to 50 tickers;
\* with fewer or more the run shows the count error and stops before any
\* download.
C8_CountCheckedFirst ==
    /\ (downloaded # <<>> \/ ran \cap (LaterStages \cup {"download"}) # {}) =>
          (MinTickers <= tickers /\ tickers <= MaxTickers)
    /\ ("validate" \in ran /\ (tickers < MinTickers \/ tickers > MaxTickers)) =>
          /\ outcome = "count_error"
          /\ pc = "stopped"
          /\ downloaded = <<>>
          /\ ran = {"validate"}
    /\ outcome = "count_error" => (tickers < MinTickers \/ tickers > MaxTickers)

\* the run stopped on 4 tickers
C8_Witness ==
    /\ outcome = "count_error"
    /\ tickers = MinTickers - 1
    /\ downloaded = <<>>

---------------------------------------------------------------------------
(* C2, C3, C5, C9: the weight stage *)

\* x <= y for numbers; false when either side is NaN
Le(x, y) == ~IsNaN(x) /\ ~IsNaN(y) /\ ~Gt(x, y)

\* the weight of s after recomputing the cutoff, the selection and the
\* weights on the table recs; 0 when s is not selected
WeightIn(recs, s) ==
    LET c  == CStarOf(recs)
        S  == SelectOf(recs, c)
        zf == [t \in S |-> ZOf(Row(recs, t), c)]
    IN  IF s \in S THEN WeightOf(zf, S)[s] ELSE Zero

\* the table recs with the Alpha of row i set to a
WithAlpha(recs, i, a) == [recs EXCEPT ![i].Alpha = Int2Num(a)]

\* C2: for any non-empty selection the weights are numbers that sum to 1.
C2_WeightsSumToOne ==
    ("weights" \in ran /\ pc # "stopped" /\ sel # {}) =>
        /\ \A s \in sel : IsFin(Weight[s])
        /\ SumSkipNa(Weight, sel) = One

\* C3: every weight that is a number lies in [0, 1].
C3_WeightsInUnitInterval ==
    ("weights" \in ran /\ pc # "stopped") =>
        \A s \in sel : IsFin(Weight[s]) => (Le(Zero, Weight[s]) /\ Le(Weight[s], One))

\* C5: when the scores of a non-empty selection are numbers that sum to
\* zero, the weight stage signals ZeroAllocation and produces no weights.
C5_ZeroSumSignalsZeroAllocation ==
    ("weights" \in ran /\ sel # {} /\ (\A s \in sel : IsFin(z[s]))
        /\ SumSkipNa(z, sel) = Zero) =>
        /\ outcome = "zero_allocation"
        /\ Weight = <<>>

\* C9: raising the alpha of a selected candidate, all else fixed, never
\* yields a smaller weight for it (both weights being numbers).
C9_RaisingAlphaNeverLowersWeight ==
    ("weights" \in ran /\ pc = "display" /\ IntTable(records)) =>
        \A i \in 1..Len(records) : \A a \in AlphaVals :
            LET s  == records[i].Stock
                w2 == WeightIn(WithAlpha(records, i, a), s)
            IN  (s \in sel /\ a > records[i].Alpha.n /\ IsFin(Weight[s]) /\ IsFin(w2))
                    => ~Lt(w2, Weight[s])

---------------------------------------------------------------------------
(* The selection, weight and display stages on larger tables *)

\* (alpha, beta, residual variance) of the securities of the display spec
TopPalette == {<<1, 1, 1>>, <<1, -1, 1>>, <<-1, 1, 1>>}

\* the state after line 88 for a table of k securities
FrameBuilt(k, recs) ==
    /\ pc = "cutoff"
    /\ outcome = "none"
    /\ tickers = MaxTickers
    /\ downloaded = <<index_candidates[1]>>
    /\ came = <<TRUE>>
    /\ market_index = index_candidates[1]
    /\ prices = [cols |-> 1..k, index |-> TRUE]
    /\ valid = [i \in 1..k |-> i]
    /\ records = recs
    /\ C_star = NaN
    /\ sel = {}
    /\ z = <<>>
    /\ Weight = <<>>
    /\ sorted_w = <<>>
    /\ top5 = <<>>
    /\ ran = {"validate", "download", "returns", "fit", "frame"}

InitTop ==
    /\ rm = <<>>
    /\ \E k \in 1..MaxSel : \E t \in [1..k -> TopPalette] :
         FrameBuilt(k, [i \in 1..k |->
                          Rec(i, Int2Num(t[i][1]), Int2Num(t[i][2]), Int2Num(t[i][3]))])

NextTop ==
    \/ Cutoff
    \/ Weights
    \/ Display

SpecTop == InitTop /\ [][NextTop]_vars

AbsNum(x) == IF Sign(x) < 0 THEN Neg(x) ELSE x

\* a comes before-or-with b in a descending order with NaN last
NotBelow(a, b) == ~Gt(b, a) /\ (IsNaN(a) => IsNaN(b))

\* C10: the table shows the min(5, size of selection) selected securities
\* of highest weight, once each, in descending weight order; each shown
\* weight is the security's weight over the whole selection, to the two
\* decimals of the percentage; and the first 3 rows are the top-3 output.
C10_TopNKeepsWeights ==
    pc = "done" =>
        LET shown == {top5[i].Stock : i \in 1..Len(top5)}
        IN  /\ Len(top5) = Min(TopN, Cardinality(sel))
            /\ Cardinality(shown) = Len(top5)
            /\ shown \subseteq sel
            /\ \A i \in 1..Len(top5) :
                 LET w == Weight[top5[i].Stock]
                 IN  IF IsFin(w)
                       THEN Le(AbsNum(Sub(top5[i].Weight, w)), Fin(1, 20000))
                       ELSE top5[i].Weight = w
            /\ \A i, j \in 1..Len(top5) :
                 i < j => NotBelow(Weight[top5[i].Stock], Weight[top5[j].Stock])
            /\ \A s \in sel \ shown : \A i \in 1..Len(top5) :
                 NotBelow(Weight[top5[i].Stock], Weight[s])
            /\ TopRows(sorted_w, Weight, 3) = SubSeq(top5, 1, Min(3, Len(top5)))

\* more than five securities were selected, with different weights, all
\* numbers, and five are shown
C10_Witness ==
    /\ pc = "done"
    /\ Cardinality(sel) > TopN
    /\ Len(top5) = TopN
    /\ \A s \in sel : IsFin(Weight[s])
    /\ \E s, t \in sel : Weight[s] # Weight[t]
    /\ top5[1].Weight # top5[TopN].Weight

---------------------------------------------------------------------------
(* The estimator on concrete return series, lines 61-86 *)

\* the daily returns a series is made of
ReturnVals == {Fin(-1, 2), Zero, Fin(1, 2)}

ReturnSeries == [1..NDays -> ReturnVals]

RECURSIVE SeqSum(_, _)
SeqSum(sq, i) == IF i = 0 THEN Zero ELSE Add(sq[i], SeqSum(sq, i - 1))

\* Series.mean()
Mean(sq) == Div(SeqSum(sq, Len(sq)), Int2Num(Len(sq)))

\* Series.var(): the sample variance (ddof = 1)
SampleVar(sq) ==
    LET m  == Mean(sq)
        sqd == [i \in 1..Len(sq) |-> Mul(Sub(sq[i], m), Sub(sq[i], m))]
    IN  Div(SeqSum(sqd, Len(sq)), Int2Num(Len(sq) - 1))

ZeroVariance(x) == \A i, j \in 1..Len(x) : x[i] = x[j]

\* np.polyfit(x, y, 1), line 70: what it can return or do.
\*  - x not constant: the least squares line.
\*  - x constant and not 0: the two scaled columns of the Vandermonde
\*    matrix are parallel, lstsq answers with the minimum-norm solution
\*    (and a RankWarning): slope mean(y)/(2c), intercept mean(y)/2.
\*  - x all 0: the column scale is 0 and the matrix NaN; depending on the
\*    LAPACK build lstsq raises LinAlgError or returns NaN coefficients.
PolyfitOutcomes(x, y) ==
    LET n   == Int2Num(Len(x))
        Sx  == SeqSum(x, Len(x))
        Sy  == SeqSum(y, Len(y))
        Sxx == SeqSum([i \in 1..Len(x) |-> Mul(x[i], x[i])], Len(x))
        Sxy == SeqSum([i \in 1..Len(x) |-> Mul(x[i], y[i])], Len(x))
        den == Sub(Mul(n, Sxx), Mul(Sx, Sx))
    IN  IF ~ZeroVariance(x)
          THEN LET b == Div(Sub(Mul(n, Sxy), Mul(Sx, Sy)), den)
               IN  {[raised |-> FALSE, beta |-> b,
                     alpha |-> Div(Sub(Sy, Mul(b, Sx)), n)]}
        ELSE IF x[1] # Zero
          THEN {[raised |-> FALSE,
                 beta  |-> Div(Mean(y), Mul(Int2Num(2), x[1])),
                 alpha |-> Div(Mean(y), Int2Num(2))]}
        ELSE {[raised |-> TRUE, beta |-> NaN, alpha |-> NaN],
              [raised |-> FALSE, beta |-> NaN, alpha |-> NaN]}

\* lines 71-86: the record of sym from its returns Ri and a fit
FitOf(sym, x, Ri, fit) ==
    LET eps      == [i \in 1..Len(Ri) |-> Sub(Ri[i], Add(fit.alpha, Mul(fit.beta, x[i])))]
        var_e    == SampleVar(eps)
        ann_ret  == Mul(Mean(Ri), Int2Num(PeriodsPerYear))
        ann_vare == Mul(var_e, Int2Num(PeriodsPerYear))
        ann_m    == Mul(Mean(x), Int2Num(PeriodsPerYear))
        a_exc    == Sub(ann_ret, Add(risk_free_rate,
                                     Mul(fit.beta, Sub(ann_m, risk_free_rate))))
    IN  Rec(sym, a_exc, fit.beta, ann_vare)

\* lines 68-86, estimator spec: one pass of the estimation loop on the
\* returns of the next valid symbol; an exception of polyfit goes to line 108
FitSeries ==
    /\ pc = "fit"
    /\ rm # <<>>
    /\ Len(records) < Len(valid)
    /\ \E Ri \in ReturnSeries : \E fit \in PolyfitOutcomes(rm, Ri) :
         IF fit.raised
           THEN /\ records' = records
                /\ pc' = "stopped"
                /\ outcome' = "unexpected_error"
           ELSE /\ records' = Append(records, FitOf(valid[Len(records) + 1], rm, Ri, fit))
                /\ pc' = pc
                /\ outcome' = outcome
    /\ ran' = ran \cup {"fit"}
    /\ UNCHANGED <<tickers, downloaded, came, market_index, prices, valid, rm,
                   C_star, sel, z, Weight, sorted_w, top5>>

\* the state after line 64 for k valid symbols and benchmark returns x
ReturnsComputed(k, x) ==
    /\ pc = "fit"
    /\ outcome = "none"
    /\ tickers = MinTickers
    /\ downloaded = <<index_candidates[1]>>
    /\ came = <<TRUE>>
    /\ market_index = index_candidates[1]
    /\ prices = [cols |-> 1..k, index |-> TRUE]
    /\ valid = [i \in 1..k |-> i]
    /\ rm = x
    /\ records = <<>>
    /\ C_star = NaN
    /\ sel = {}
    /\ z = <<>>
    /\ Weight = <<>>
    /\ sorted_w = <<>>
    /\ top5 = <<>>
    /\ ran = {"validate", "download", "returns"}

InitFit == \E k \in 1..MaxFit : \E x \in ReturnSeries : ReturnsComputed(k, x)

NextFit ==
    \/ FitSeries
    \/ BuildFrame
    \/ Cutoff
    \/ Weights
    \/ Display

SpecFit == InitFit /\ [][NextFit]_vars

\* C6: with a benchmark return series of zero variance no estimate reaches
\* the display: the run does not show a row of weights.
C6_ZeroVarianceNeverDisplayed ==
    (rm # <<>> /\ ZeroVariance(rm)) => ~("display" \in ran /\ top5 # <<>>)

=============================================================================
